---- MODULE Spec2Model ----
(***************************************************************************)
(* A model of the typed-value wire codec of ntgo (entry.go): the scalar    *)
(* values (Boolean, Double, String, Raw), the three array variants, and    *)
(* the tag dispatch of DecodeEntryValueAndType.                            *)
(*                                                                         *)
(* A byte is a number in 0..255; a stream (an io.Reader over a byte        *)
(* buffer) is the sequence of the bytes not yet read.  A Go string is the  *)
(* sequence of its bytes.  A float64 is its IEEE-754 bit pattern, held as  *)
(* four 16-bit words, most significant first.  A pointer to a scalar is an *)
(* index of heap.                                                          *)
(***************************************************************************)
EXTENDS Integers, Sequences, FiniteSets, TLC

VARIABLES
    pc,        \* which stage the object under study is in
    entry,     \* scalar specification: the scalar object (its two fields)
    last,      \* scalar specification: the value the last successful update supplied
    ret,       \* the result of the last operation
    kind,      \* array specification: the array's variant
    heap,      \* array specification: the scalar objects, by pointer
    values,    \* array specification: the caller's slice handed to BuildXArray
    values0,   \* array specification: values as the caller handed it over
    elements,  \* array specification: the array's elements slice
    ops,       \* array specification: operations performed so far
    stream,    \* dispatch specification: the input bytes
    reenc      \* dispatch specification: the re-encoded bytes

vars == <<pc, entry, last, ret, kind, heap, values, values0, elements, ops, stream, reenc>>

-----------------------------------------------------------------------------
(* Bounds of the model. *)

\* The longest stream of arbitrary bytes fed to a decoder.
MaxStream == 3
\* The longest short input sequence handed to BuildXArray.
MaxBuild == 2
\* The number of operations performed on an array after its construction.
MaxOps == 2
\* The longest string or raw payload given as a logical value.
MaxString == 2

(* Program constants. *)

\* The largest element count BuildXArray keeps and the bound of Add's guard.
MaxElements == 255
\* The number of values of a uint8.
Uint8Range == 256

-----------------------------------------------------------------------------
(* Errors *)

Nil == "nil"
ErrEntryCastInvalid == "entry: could not cast entryvalue to type"
ErrEntryNoSuchType == "entry: no such type"
ErrEntryDataInvalid == "entry: data invalid"
ErrArrayIndexOutOfBounds == "entryarray: index out of bounds"
ErrArrayOutOfSpace == "entryarray: no more space"
\* io.EOF and io.ErrUnexpectedEOF, the read failures of the standard library.
EOF == "EOF"
ErrUnexpectedEOF == "unexpected EOF"
\* mergo.ErrNotSupported: the destination is neither a struct nor a map.
ErrNotSupported == "only structs and maps are supported"

(* Entry types *)

EntryTypeBoolean == 0
EntryTypeDouble == 1
EntryTypeString == 2
EntryTypeRawData == 3
EntryTypeBooleanArr == 16
EntryTypeDoubleArr == 17
EntryTypeStringArr == 18
EntryTypeRPCDef == 32
EntryTypeUndef == 255

BoolFalse == 0
BoolTrue == 1

-----------------------------------------------------------------------------
(* Sequences and readers *)

SeqsUpTo(S, n) == UNION {[1..k -> S] : k \in 0..n}

Drop(s, n) == SubSeq(s, n + 1, Len(s))

\* uint8(n)
Uint8(n) == n % Uint8Range

\* r.Read(buf) with a buffer of one byte, on a reader over a byte buffer.
Read1(r) ==
    IF r = <<>>
    THEN [data |-> <<>>, err |-> EOF, rest |-> r]
    ELSE [data |-> <<Head(r)>>, err |-> Nil, rest |-> Tail(r)]

\* io.ReadFull(r, buf) with a buffer of n bytes: EOF when nothing was read,
\* ErrUnexpectedEOF when fewer than n bytes were.
ReadFull(r, n) ==
    IF n = 0 THEN [data |-> <<>>, err |-> Nil, rest |-> r]
    ELSE IF r = <<>> THEN [data |-> <<>>, err |-> EOF, rest |-> r]
    ELSE IF Len(r) < n THEN [data |-> r, err |-> ErrUnexpectedEOF, rest |-> <<>>]
    ELSE [data |-> SubSeq(r, 1, n), err |-> Nil, rest |-> Drop(r, n)]

-----------------------------------------------------------------------------
(* The helpers of the repository that entry.go calls and does not define.  *)

RECURSIVE EncodeULEB128(_)
\* The minimal unsigned LEB128 encoding: 7 data bits a byte, least
\* significant group first, the continuation bit on all but the last byte.
EncodeULEB128(n) ==
    IF n < 128 THEN <<n>>
    ELSE <<128 + (n % 128)>> \o EncodeULEB128(n \div 128)

\* A uint32 held as two 16-bit halves, as a number: exact below 2^30, and
\* 2^30 from there on, which is longer than every stream of the model.
Uint32Number(hi, lo) == IF hi >= 16384 THEN 16384 * 65536 ELSE hi * 65536 + lo

RECURSIVE ULEBLoop(_, _, _, _, _)
\* The 7-bit group of each byte is shifted into a uint32 accumulator (hi, lo):
\* the bits shifted beyond bit 31 are lost.
ULEBLoop(r, hi, lo, shift, raw) ==
    IF r = <<>>
    THEN [val |-> 0, data |-> raw, err |-> EOF, rest |-> r]
    ELSE LET b == Head(r)
             g == b % 128
             lo2 == IF shift < 16 THEN lo + ((g * 2^shift) % 65536) ELSE lo
             hi2 == IF shift < 16 THEN hi + ((g * 2^shift) \div 65536)
                    ELSE IF shift < 32 THEN hi + ((g * 2^(shift - 16)) % 65536)
                    ELSE hi
             raw2 == Append(raw, b)
         IN IF b < 128
            THEN [val |-> Uint32Number(hi2, lo2), data |-> raw2, err |-> Nil,
                  rest |-> Tail(r)]
            ELSE ULEBLoop(Tail(r), hi2, lo2, shift + 7, raw2)

\* Reads bytes up to the first one with the continuation bit clear; returns
\* the number, the raw bytes consumed, and a read failure when the stream
\* ends first.
DecodeAndSaveULEB128(r) == ULEBLoop(r, 0, 0, 0, <<>>)

\* The 8 bytes of a float64, most significant first.
Float64ToBytes(d) ==
    <<d[1] \div 256, d[1] % 256, d[2] \div 256, d[2] % 256,
      d[3] \div 256, d[3] % 256, d[4] \div 256, d[4] % 256>>

BytesToFloat64(b) ==
    <<b[1] * 256 + b[2], b[3] * 256 + b[4], b[5] * 256 + b[6], b[7] * 256 + b[8]>>

-----------------------------------------------------------------------------
(* Scalar values: a record of the struct's two fields and its Go type.     *)

NoValue == [type |-> "none", Value |-> FALSE, RawValue |-> <<>>]

ValueBoolean(value, raw) == [type |-> "Boolean", Value |-> value, RawValue |-> raw]
ValueDouble(value, raw) == [type |-> "Double", Value |-> value, RawValue |-> raw]
ValueString(value, raw) == [type |-> "String", Value |-> value, RawValue |-> raw]
ValueRaw(value, raw) == [type |-> "Raw", Value |-> value, RawValue |-> raw]

\* +0.0 and -0.0
DoubleZeros == {<<0, 0, 0, 0>>, <<32768, 0, 0, 0>>}

\* mergo's isEmptyValue on a field of a scalar struct: false, a float equal
\* to 0, a string or a slice of length 0.
IsEmptyValue(type, v) ==
    CASE type = "Boolean" -> v = FALSE
      [] type = "Double" -> v \in DoubleZeros
      [] OTHER -> Len(v) = 0

\* mergo.MergeWithOverwrite(dst, src), with dstKind the kind of what the
\* pointer dst points at.  Unless that is a struct (or a map) the call fails
\* with ErrNotSupported and assigns nothing.  On two structs of one type,
\* every field of src that is not empty is assigned to the field of dst, and
\* an empty field of src leaves dst's as it was.  obj is dst's new content.
MergeWithOverwrite(dstKind, dst, src) ==
    IF dstKind # "struct"
    THEN [obj |-> dst, err |-> ErrNotSupported]
    ELSE [obj |-> [dst EXCEPT
                      !.Value = IF IsEmptyValue(src.type, src.Value) THEN @ ELSE src.Value,
                      !.RawValue = IF Len(src.RawValue) = 0 THEN @ ELSE src.RawValue],
          err |-> Nil]

DecodeBoolean(r) ==
    LET rd == ReadFull(r, 1)
    IN IF rd.err # Nil THEN [val |-> NoValue, err |-> rd.err, rest |-> rd.rest]
       ELSE IF rd.data[1] = BoolFalse
            THEN [val |-> ValueBoolean(FALSE, rd.data), err |-> Nil, rest |-> rd.rest]
       ELSE IF rd.data[1] = BoolTrue
            THEN [val |-> ValueBoolean(TRUE, rd.data), err |-> Nil, rest |-> rd.rest]
       ELSE [val |-> NoValue, err |-> ErrEntryDataInvalid, rest |-> rd.rest]

BuildBoolean(value) ==
    ValueBoolean(value, IF value THEN <<BoolTrue>> ELSE <<BoolFalse>>)

DecodeString(r) ==
    LET u == DecodeAndSaveULEB128(r)
        rd == ReadFull(u.rest, u.val)
    IN IF u.err # Nil THEN [val |-> NoValue, err |-> u.err, rest |-> u.rest]
       ELSE IF rd.err # Nil THEN [val |-> NoValue, err |-> rd.err, rest |-> rd.rest]
       ELSE [val |-> ValueString(rd.data, u.data \o rd.data), err |-> Nil, rest |-> rd.rest]

BuildString(value) ==
    ValueString(value, EncodeULEB128(Len(value)) \o value)

DecodeDouble(r) ==
    LET rd == ReadFull(r, 8)
    IN IF rd.err # Nil THEN [val |-> NoValue, err |-> rd.err, rest |-> rd.rest]
       ELSE [val |-> ValueDouble(BytesToFloat64(rd.data), rd.data), err |-> Nil,
             rest |-> rd.rest]

BuildDouble(value) == ValueDouble(value, Float64ToBytes(value))

DecodeRaw(r) ==
    LET u == DecodeAndSaveULEB128(r)
        rd == ReadFull(u.rest, u.val)
    IN IF u.err # Nil THEN [val |-> NoValue, err |-> u.err, rest |-> u.rest]
       ELSE IF rd.err # Nil THEN [val |-> NoValue, err |-> rd.err, rest |-> rd.rest]
       ELSE [val |-> ValueRaw(rd.data, u.data \o rd.data), err |-> Nil, rest |-> rd.rest]

BuildRaw(value) ==
    ValueRaw(value, EncodeULEB128(Len(value)) \o value)

\* A faulty UpdateRaw: the byte read is stored in RawValue before it is
\* validated.
ValueBoolean_UpdateRaw_StoresFirst(e, r) ==
    LET rd == ReadFull(r, 1)
        newEntry == DecodeBoolean(r)
    IN IF newEntry.err # Nil
       THEN [obj |-> IF rd.err = Nil THEN [e EXCEPT !.RawValue = rd.data] ELSE e,
             err |-> newEntry.err]
       ELSE MergeWithOverwrite("struct", e, newEntry.val)

\* (entry *ValueBoolean) UpdateRaw(r): the object's new content and the
\* error returned.
ValueBoolean_UpdateRaw(e, r) ==
    LET newEntry == DecodeBoolean(r)
    IN IF newEntry.err # Nil THEN [obj |-> e, err |-> newEntry.err]
       ELSE MergeWithOverwrite("struct", e, newEntry.val)

ValueBoolean_GetRaw(e) == e.RawValue

ValueBoolean_UpdateValue(e, value) ==
    MergeWithOverwrite("struct", e, BuildBoolean(value))

ValueString_UpdateRaw(e, r) ==
    LET newEntry == DecodeString(r)
    IN IF newEntry.err # Nil THEN [obj |-> e, err |-> newEntry.err]
       ELSE MergeWithOverwrite("struct", e, newEntry.val)

ValueString_GetRaw(e) == e.RawValue

ValueString_UpdateValue(e, value) ==
    MergeWithOverwrite("struct", e, BuildString(value))

ValueDouble_UpdateRaw(e, r) ==
    LET newEntry == DecodeDouble(r)
    IN IF newEntry.err # Nil THEN [obj |-> e, err |-> newEntry.err]
       ELSE MergeWithOverwrite("struct", e, newEntry.val)

ValueDouble_GetRaw(e) == e.RawValue

ValueDouble_UpdateValue(e, value) ==
    MergeWithOverwrite("struct", e, BuildDouble(value))

ValueRaw_UpdateRaw(e, r) ==
    LET newEntry == DecodeRaw(r)
    IN IF newEntry.err # Nil THEN [obj |-> e, err |-> newEntry.err]
       ELSE MergeWithOverwrite("struct", e, newEntry.val)

ValueRaw_GetRaw(e) == e.RawValue

ValueRaw_UpdateValue(e, value) ==
    MergeWithOverwrite("struct", e, BuildRaw(value))

-----------------------------------------------------------------------------
(* Arrays.  An array is held with the memory it refers to: heap, the       *)
(* scalar objects (a pointer is an index of heap); values, the backing     *)
(* array of the caller's slice handed to BuildXArray; and elements, the    *)
(* array's slice, which is either the first len cells of values (shared)   *)
(* or a backing array of the array's own.                                  *)

NilPointer == 0

NoArray == [heap |-> <<>>, values |-> <<>>,
            elements |-> [shared |-> FALSE, len |-> 0, own |-> <<>>]]

\* An array over a backing array of its own, made by make([]*T, index) and
\* filled with pointers to the objects just decoded.
FreshArray(objects) ==
    [heap |-> objects, values |-> <<>>,
     elements |-> [shared |-> FALSE, len |-> Len(objects),
                   own |-> [i \in 1..Len(objects) |-> i]]]

\* The pointers of array.elements, in order.
Slice(array) ==
    IF array.elements.shared
    THEN SubSeq(array.values, 1, array.elements.len)
    ELSE array.elements.own

\* len(array.elements)
SliceLen(array) == array.elements.len

\* array.elements[index], index counted from 0
SliceAt(array, index) == Slice(array)[index + 1]

\* array.elements = append(array.elements, p), p a pointer to a new cell of
\* heap holding obj.  Within the capacity of a shared backing array the
\* pointer is written into the caller's backing array; at capacity the slice
\* moves to a backing array of its own.
SliceAppend(array, obj) ==
    LET p == Len(array.heap) + 1
        n == array.elements.len
        heap2 == Append(array.heap, obj)
    IN IF array.elements.shared /\ n < Len(array.values)
       THEN [heap |-> heap2,
             values |-> [array.values EXCEPT ![n + 1] = p],
             elements |-> [array.elements EXCEPT !.len = n + 1]]
       ELSE [heap |-> heap2,
             values |-> array.values,
             elements |-> [shared |-> FALSE, len |-> n + 1,
                           own |-> Append(Slice(array), p)]]

RECURSIVE DecodeBooleanElements(_, _)
\* DecodeBooleanArray's loop: index elements decoded one after the other, the
\* first failure ending it (computed by halves, which keeps the evaluation
\* shallow).
DecodeBooleanElements(r, index) ==
    IF index = 0 THEN [val |-> <<>>, err |-> Nil, rest |-> r]
    ELSE IF index = 1
    THEN LET d == DecodeBoolean(r)
         IN [val |-> IF d.err = Nil THEN <<d.val>> ELSE <<>>, err |-> d.err,
             rest |-> d.rest]
    ELSE LET first == DecodeBooleanElements(r, index \div 2)
             second == DecodeBooleanElements(first.rest, index - (index \div 2))
         IN IF first.err # Nil THEN first
            ELSE IF second.err # Nil THEN second
            ELSE [val |-> first.val \o second.val, err |-> Nil, rest |-> second.rest]

DecodeBooleanArray(r) ==
    LET rd == ReadFull(r, 1)
        index == Uint8(rd.data[1])
        el == DecodeBooleanElements(rd.rest, index)
    IN IF rd.err # Nil THEN [val |-> NoArray, err |-> rd.err, rest |-> rd.rest]
       ELSE IF el.err # Nil THEN [val |-> NoArray, err |-> el.err, rest |-> el.rest]
       ELSE [val |-> FreshArray(el.val), err |-> Nil, rest |-> el.rest]

\* BuildBooleanArray(values): the array's slice is values[:index], which shares
\* the backing array of values.
BuildBooleanArray(objects, vals) ==
    LET index == IF Len(vals) > MaxElements THEN MaxElements ELSE Uint8(Len(vals))
    IN [heap |-> objects, values |-> vals,
        elements |-> [shared |-> TRUE, len |-> index, own |-> <<>>]]

ValueBooleanArray_Get(array, index) ==
    IF index >= Uint8(SliceLen(array))
    THEN [val |-> NilPointer, err |-> ErrArrayIndexOutOfBounds]
    ELSE [val |-> SliceAt(array, index), err |-> Nil]

ValueBooleanArray_Update(array, index, e) ==
    IF e.type # "Boolean" THEN [array |-> array, err |-> ErrEntryCastInvalid]
    ELSE IF index >= Uint8(SliceLen(array))
    THEN [array |-> array, err |-> ErrArrayIndexOutOfBounds]
    ELSE LET p == SliceAt(array, index)
             m == MergeWithOverwrite("struct", array.heap[p], e.obj)
         IN [array |-> [array EXCEPT !.heap[p] = m.obj], err |-> m.err]

\* A faulty Add: the entry is appended whatever its variant.
ValueBooleanArray_Add_NoCast(array, e) ==
    IF SliceLen(array) > MaxElements
    THEN [array |-> array, err |-> ErrArrayOutOfSpace]
    ELSE [array |-> SliceAppend(array, e.obj), err |-> Nil]


ValueBooleanArray_Add(array, e) ==
    IF e.type # "Boolean" THEN [array |-> array, err |-> ErrEntryCastInvalid]
    ELSE IF SliceLen(array) > MaxElements
    THEN [array |-> array, err |-> ErrArrayOutOfSpace]
    ELSE [array |-> SliceAppend(array, e.obj), err |-> Nil]

RECURSIVE ValueBooleanArray_GetRawLoop(_, _, _)
\* The bytes the loop appends for i in from..to-1: the elements' RawValue in
\* order (computed by halves, which keeps the evaluation shallow).
ValueBooleanArray_GetRawLoop(array, from, to) ==
    IF from >= to THEN <<>>
    ELSE IF to = from + 1 THEN array.heap[SliceAt(array, from)].RawValue
    ELSE LET mid == (from + to) \div 2
         IN ValueBooleanArray_GetRawLoop(array, from, mid)
                \o ValueBooleanArray_GetRawLoop(array, mid, to)

\* A faulty GetRaw: the count byte is left out.
ValueBooleanArray_GetRaw_NoCount(array) ==
    ValueBooleanArray_GetRawLoop(array, 0, Uint8(SliceLen(array)))


ValueBooleanArray_GetRaw(array) ==
    <<Uint8(SliceLen(array))>> \o ValueBooleanArray_GetRawLoop(array, 0, Uint8(SliceLen(array)))

RECURSIVE DecodeDoubleElements(_, _)
\* DecodeDoubleArray's loop: index elements decoded one after the other, the
\* first failure ending it (computed by halves, which keeps the evaluation
\* shallow).
DecodeDoubleElements(r, index) ==
    IF index = 0 THEN [val |-> <<>>, err |-> Nil, rest |-> r]
    ELSE IF index = 1
    THEN LET d == DecodeDouble(r)
         IN [val |-> IF d.err = Nil THEN <<d.val>> ELSE <<>>, err |-> d.err,
             rest |-> d.rest]
    ELSE LET first == DecodeDoubleElements(r, index \div 2)
             second == DecodeDoubleElements(first.rest, index - (index \div 2))
         IN IF first.err # Nil THEN first
            ELSE IF second.err # Nil THEN second
            ELSE [val |-> first.val \o second.val, err |-> Nil, rest |-> second.rest]

DecodeDoubleArray(r) ==
    LET rd == ReadFull(r, 1)
        index == Uint8(rd.data[1])
        el == DecodeDoubleElements(rd.rest, index)
    IN IF rd.err # Nil THEN [val |-> NoArray, err |-> rd.err, rest |-> rd.rest]
       ELSE IF el.err # Nil THEN [val |-> NoArray, err |-> el.err, rest |-> el.rest]
       ELSE [val |-> FreshArray(el.val), err |-> Nil, rest |-> el.rest]

\* BuildDoubleArray(values): the array's slice is values[:index], which shares
\* the backing array of values.
BuildDoubleArray(objects, vals) ==
    LET index == IF Len(vals) > MaxElements THEN MaxElements ELSE Uint8(Len(vals))
    IN [heap |-> objects, values |-> vals,
        elements |-> [shared |-> TRUE, len |-> index, own |-> <<>>]]

ValueDoubleArray_Get(array, index) ==
    IF index >= Uint8(SliceLen(array))
    THEN [val |-> NilPointer, err |-> ErrArrayIndexOutOfBounds]
    ELSE [val |-> SliceAt(array, index), err |-> Nil]

ValueDoubleArray_Update(array, index, e) ==
    IF e.type # "Double" THEN [array |-> array, err |-> ErrEntryCastInvalid]
    ELSE IF index >= Uint8(SliceLen(array))
    THEN [array |-> array, err |-> ErrArrayIndexOutOfBounds]
    ELSE LET p == SliceAt(array, index)
             m == MergeWithOverwrite("ptr", array.heap[p], e.obj)
         IN [array |-> [array EXCEPT !.heap[p] = m.obj], err |-> m.err]

ValueDoubleArray_Add(array, e) ==
    IF e.type # "Double" THEN [array |-> array, err |-> ErrEntryCastInvalid]
    ELSE IF SliceLen(array) > MaxElements
    THEN [array |-> array, err |-> ErrArrayOutOfSpace]
    ELSE [array |-> SliceAppend(array, e.obj), err |-> Nil]

RECURSIVE ValueDoubleArray_GetRawLoop(_, _, _)
\* The bytes the loop appends for i in from..to-1: the elements' RawValue in
\* order (computed by halves, which keeps the evaluation shallow).
ValueDoubleArray_GetRawLoop(array, from, to) ==
    IF from >= to THEN <<>>
    ELSE IF to = from + 1 THEN array.heap[SliceAt(array, from)].RawValue
    ELSE LET mid == (from + to) \div 2
         IN ValueDoubleArray_GetRawLoop(array, from, mid)
                \o ValueDoubleArray_GetRawLoop(array, mid, to)

ValueDoubleArray_GetRaw(array) ==
    <<Uint8(SliceLen(array))>> \o ValueDoubleArray_GetRawLoop(array, 0, Uint8(SliceLen(array)))

RECURSIVE DecodeStringElements(_, _)
\* DecodeStringArray's loop: index elements decoded one after the other, the
\* first failure ending it (computed by halves, which keeps the evaluation
\* shallow).
DecodeStringElements(r, index) ==
    IF index = 0 THEN [val |-> <<>>, err |-> Nil, rest |-> r]
    ELSE IF index = 1
    THEN LET d == DecodeString(r)
         IN [val |-> IF d.err = Nil THEN <<d.val>> ELSE <<>>, err |-> d.err,
             rest |-> d.rest]
    ELSE LET first == DecodeStringElements(r, index \div 2)
             second == DecodeStringElements(first.rest, index - (index \div 2))
         IN IF first.err # Nil THEN first
            ELSE IF second.err # Nil THEN second
            ELSE [val |-> first.val \o second.val, err |-> Nil, rest |-> second.rest]

DecodeStringArray(r) ==
    LET rd == ReadFull(r, 1)
        index == Uint8(rd.data[1])
        el == DecodeStringElements(rd.rest, index)
    IN IF rd.err # Nil THEN [val |-> NoArray, err |-> rd.err, rest |-> rd.rest]
       ELSE IF el.err # Nil THEN [val |-> NoArray, err |-> el.err, rest |-> el.rest]
       ELSE [val |-> FreshArray(el.val), err |-> Nil, rest |-> el.rest]

\* BuildStringArray(values): the array's slice is values[:index], which shares
\* the backing array of values.
BuildStringArray(objects, vals) ==
    LET index == IF Len(vals) > MaxElements THEN MaxElements ELSE Uint8(Len(vals))
    IN [heap |-> objects, values |-> vals,
        elements |-> [shared |-> TRUE, len |-> index, own |-> <<>>]]

ValueStringArray_Get(array, index) ==
    IF index >= Uint8(SliceLen(array))
    THEN [val |-> NilPointer, err |-> ErrArrayIndexOutOfBounds]
    ELSE [val |-> SliceAt(array, index), err |-> Nil]

ValueStringArray_Update(array, index, e) ==
    IF e.type # "String" THEN [array |-> array, err |-> ErrEntryCastInvalid]
    ELSE IF index >= Uint8(SliceLen(array))
    THEN [array |-> array, err |-> ErrArrayIndexOutOfBounds]
    ELSE LET p == SliceAt(array, index)
             m == MergeWithOverwrite("struct", array.heap[p], e.obj)
         IN [array |-> [array EXCEPT !.heap[p] = m.obj], err |-> m.err]

ValueStringArray_Add(array, e) ==
    IF e.type # "String" THEN [array |-> array, err |-> ErrEntryCastInvalid]
    ELSE IF SliceLen(array) > MaxElements
    THEN [array |-> array, err |-> ErrArrayOutOfSpace]
    ELSE [array |-> SliceAppend(array, e.obj), err |-> Nil]

RECURSIVE ValueStringArray_GetRawLoop(_, _, _)
\* The bytes the loop appends for i in from..to-1: the elements' RawValue in
\* order (computed by halves, which keeps the evaluation shallow).
ValueStringArray_GetRawLoop(array, from, to) ==
    IF from >= to THEN <<>>
    ELSE IF to = from + 1 THEN array.heap[SliceAt(array, from)].RawValue
    ELSE LET mid == (from + to) \div 2
         IN ValueStringArray_GetRawLoop(array, from, mid)
                \o ValueStringArray_GetRawLoop(array, mid, to)

ValueStringArray_GetRaw(array) ==
    <<Uint8(SliceLen(array))>> \o ValueStringArray_GetRawLoop(array, 0, Uint8(SliceLen(array)))

-----------------------------------------------------------------------------
\* The decoder, the builder and the methods of each scalar variant.
ScalarTypes == {"Boolean", "Double", "String", "Raw"}

DecodeScalar(type, r) ==
    CASE type = "Boolean" -> DecodeBoolean(r)
      [] type = "Double" -> DecodeDouble(r)
      [] type = "String" -> DecodeString(r)
      [] type = "Raw" -> DecodeRaw(r)

BuildScalar(type, value) ==
    CASE type = "Boolean" -> BuildBoolean(value)
      [] type = "Double" -> BuildDouble(value)
      [] type = "String" -> BuildString(value)
      [] type = "Raw" -> BuildRaw(value)

UpdateRaw(e, r) ==
    CASE e.type = "Boolean" -> ValueBoolean_UpdateRaw(e, r)
      [] e.type = "Double" -> ValueDouble_UpdateRaw(e, r)
      [] e.type = "String" -> ValueString_UpdateRaw(e, r)
      [] e.type = "Raw" -> ValueRaw_UpdateRaw(e, r)

UpdateValue(e, value) ==
    CASE e.type = "Boolean" -> ValueBoolean_UpdateValue(e, value)
      [] e.type = "Double" -> ValueDouble_UpdateValue(e, value)
      [] e.type = "String" -> ValueString_UpdateValue(e, value)
      [] e.type = "Raw" -> ValueRaw_UpdateValue(e, value)

ScalarGetRaw(e) ==
    CASE e.type = "Boolean" -> ValueBoolean_GetRaw(e)
      [] e.type = "Double" -> ValueDouble_GetRaw(e)
      [] e.type = "String" -> ValueString_GetRaw(e)
      [] e.type = "Raw" -> ValueRaw_GetRaw(e)

\* The methods of each array variant, by the array's element type.
ArrayKinds == {"Boolean", "Double", "String"}

DecodeArray(k, r) ==
    CASE k = "Boolean" -> DecodeBooleanArray(r)
      [] k = "Double" -> DecodeDoubleArray(r)
      [] k = "String" -> DecodeStringArray(r)

BuildArray(k, objects, vals) ==
    CASE k = "Boolean" -> BuildBooleanArray(objects, vals)
      [] k = "Double" -> BuildDoubleArray(objects, vals)
      [] k = "String" -> BuildStringArray(objects, vals)

ArrayGet(k, array, index) ==
    CASE k = "Boolean" -> ValueBooleanArray_Get(array, index)
      [] k = "Double" -> ValueDoubleArray_Get(array, index)
      [] k = "String" -> ValueStringArray_Get(array, index)

ArrayUpdate(k, array, index, e) ==
    CASE k = "Boolean" -> ValueBooleanArray_Update(array, index, e)
      [] k = "Double" -> ValueDoubleArray_Update(array, index, e)
      [] k = "String" -> ValueStringArray_Update(array, index, e)

ArrayAdd(k, array, e) ==
    CASE k = "Boolean" -> ValueBooleanArray_Add(array, e)
      [] k = "Double" -> ValueDoubleArray_Add(array, e)
      [] k = "String" -> ValueStringArray_Add(array, e)

ArrayGetRaw(k, array) ==
    CASE k = "Boolean" -> ValueBooleanArray_GetRaw(array)
      [] k = "Double" -> ValueDoubleArray_GetRaw(array)
      [] k = "String" -> ValueStringArray_GetRaw(array)

-----------------------------------------------------------------------------
(* Entry dispatch.  An EntryValue is an interface value: its dynamic type, *)
(* whether the pointer it holds is nil, and the object pointed at.         *)

NilInterface == [dyn |-> "nil", isnil |-> TRUE, obj |-> NoValue]

\* A decoder's (pointer, error) returned as (EntryValue, error): a nil
\* pointer becomes an interface value that holds it.
AsEntryValue(dyn, d) ==
    [value |-> [dyn |-> dyn, isnil |-> d.err # Nil, obj |-> d.val],
     err |-> d.err, rest |-> d.rest]

\* A faulty dispatch: the reserved RPC tag is decoded as raw data.
DecodeEntryValue_RPCAsRaw(r, entryType) ==
    CASE entryType = EntryTypeBoolean -> AsEntryValue("*ValueBoolean", DecodeBoolean(r))
      [] entryType = EntryTypeDouble -> AsEntryValue("*ValueDouble", DecodeDouble(r))
      [] entryType = EntryTypeString -> AsEntryValue("*ValueString", DecodeString(r))
      [] entryType = EntryTypeRawData -> AsEntryValue("*ValueRaw", DecodeRaw(r))
      [] entryType = EntryTypeRPCDef -> AsEntryValue("*ValueRaw", DecodeRaw(r))
      [] entryType = EntryTypeBooleanArr ->
            AsEntryValue("*ValueBooleanArray", DecodeBooleanArray(r))
      [] entryType = EntryTypeDoubleArr ->
            AsEntryValue("*ValueDoubleArray", DecodeDoubleArray(r))
      [] entryType = EntryTypeStringArr ->
            AsEntryValue("*ValueStringArray", DecodeStringArray(r))
      [] OTHER -> [value |-> NilInterface, err |-> ErrEntryNoSuchType, rest |-> r]


DecodeEntryValue(r, entryType) ==
    CASE entryType = EntryTypeBoolean -> AsEntryValue("*ValueBoolean", DecodeBoolean(r))
      [] entryType = EntryTypeDouble -> AsEntryValue("*ValueDouble", DecodeDouble(r))
      [] entryType = EntryTypeString -> AsEntryValue("*ValueString", DecodeString(r))
      [] entryType = EntryTypeRawData -> AsEntryValue("*ValueRaw", DecodeRaw(r))
      [] entryType = EntryTypeBooleanArr ->
            AsEntryValue("*ValueBooleanArray", DecodeBooleanArray(r))
      [] entryType = EntryTypeDoubleArr ->
            AsEntryValue("*ValueDoubleArray", DecodeDoubleArray(r))
      [] entryType = EntryTypeStringArr ->
            AsEntryValue("*ValueStringArray", DecodeStringArray(r))
      [] OTHER -> [value |-> NilInterface, err |-> ErrEntryNoSuchType, rest |-> r]

DecodeEntryValueAndType(r) ==
    LET rd == Read1(r)
        entryType == rd.data[1]
        d == DecodeEntryValue(rd.rest, entryType)
    IN IF rd.err # Nil
       THEN [value |-> NilInterface, entryType |-> EntryTypeUndef, err |-> rd.err,
             rest |-> rd.rest]
       ELSE [value |-> d.value, entryType |-> entryType, err |-> d.err, rest |-> d.rest]

\* value.GetRaw(), by the dynamic type of the interface value.
EntryValue_GetRaw(v) ==
    CASE v.dyn = "*ValueBoolean" -> ValueBoolean_GetRaw(v.obj)
      [] v.dyn = "*ValueDouble" -> ValueDouble_GetRaw(v.obj)
      [] v.dyn = "*ValueString" -> ValueString_GetRaw(v.obj)
      [] v.dyn = "*ValueRaw" -> ValueRaw_GetRaw(v.obj)
      [] v.dyn = "*ValueBooleanArray" -> ValueBooleanArray_GetRaw(v.obj)
      [] v.dyn = "*ValueDoubleArray" -> ValueDoubleArray_GetRaw(v.obj)
      [] v.dyn = "*ValueStringArray" -> ValueStringArray_GetRaw(v.obj)

-----------------------------------------------------------------------------
(* Inputs *)

\* 0.0, -0.0, 1.0 and 0.1
Doubles == DoubleZeros \cup {<<16368, 0, 0, 0>>, <<16313, 39321, 39321, 39322>>}

\* The bytes of the strings and of the raw payloads given as logical values.
Chars == {97, 98}
Blobs == {0, 255}

\* The bytes the streams are made of: 0x80 is a ULEB128 continuation byte.
StreamBytes == {0, 1, 2, 128}

\* The encoding of each double, the same cut short, and followed by a byte.
DoubleStreams ==
    UNION {{Float64ToBytes(d), SubSeq(Float64ToBytes(d), 1, 7),
            Float64ToBytes(d) \o <<1>>} : d \in Doubles}

Streams == SeqsUpTo(StreamBytes, MaxStream) \cup DoubleStreams

ScalarInputs(type) ==
    CASE type = "Boolean" -> BOOLEAN
      [] type = "Double" -> Doubles
      [] type = "String" -> SeqsUpTo(Chars, MaxString)
      [] type = "Raw" -> SeqsUpTo(Blobs, MaxString)

-----------------------------------------------------------------------------
(* The scalar specification: one scalar object, constructed by BuildX or   *)
(* DecodeX and then updated in place.                                      *)

Unused == "unused"

InitScalar ==
    /\ pc = "new"
    /\ entry = NoValue
    /\ last = "none"
    /\ ret = [op |-> "none", err |-> Nil]
    /\ kind = Unused /\ heap = Unused /\ values = Unused /\ values0 = Unused
    /\ elements = Unused /\ ops = 0 /\ stream = Unused /\ reenc = Unused

otherScalar == <<kind, heap, values, values0, elements, ops, stream, reenc>>

\* BuildBoolean, BuildDouble, BuildString, BuildRaw
ScalarBuild ==
    /\ pc = "new"
    /\ \E type \in ScalarTypes : \E v \in ScalarInputs(type) :
        /\ entry' = BuildScalar(type, v)
        /\ last' = v
    /\ pc' = "live"
    /\ ret' = [op |-> "Build", err |-> Nil]
    /\ UNCHANGED otherScalar

\* DecodeBoolean, DecodeDouble, DecodeString, DecodeRaw: a failure returns
\* no object.
ScalarDecode ==
    /\ pc = "new"
    /\ \E type \in ScalarTypes : \E r \in Streams :
        LET d == DecodeScalar(type, r)
        IN /\ d.err = Nil
           /\ entry' = d.val
           /\ last' = d.val.Value
    /\ pc' = "live"
    /\ ret' = [op |-> "Decode", err |-> Nil]
    /\ UNCHANGED otherScalar

ScalarUpdateValue ==
    /\ pc = "live"
    /\ \E v \in ScalarInputs(entry.type) :
        LET u == UpdateValue(entry, v)
        IN /\ entry' = u.obj
           /\ last' = IF u.err = Nil THEN v ELSE last
           /\ ret' = [op |-> "UpdateValue", err |-> u.err]
    /\ UNCHANGED <<pc, otherScalar>>

ScalarUpdateRaw ==
    /\ pc = "live"
    /\ \E r \in Streams :
        LET u == UpdateRaw(entry, r)
        IN /\ entry' = u.obj
           /\ last' = IF u.err = Nil THEN DecodeScalar(entry.type, r).val.Value ELSE last
           /\ ret' = [op |-> "UpdateRaw", err |-> u.err]
    /\ UNCHANGED <<pc, otherScalar>>

NextScalar ==
    \/ ScalarBuild
    \/ ScalarDecode
    \/ ScalarUpdateValue
    \/ ScalarUpdateRaw

SpecScalar == InitScalar /\ [][NextScalar]_vars

-----------------------------------------------------------------------------
(* The array specification: one array, constructed by BuildXArray or       *)
(* DecodeXArray, then read by Get and GetRaw and changed by Add and Update.*)

\* The logical values of the elements given to the arrays.
ElemInputs(k) ==
    CASE k = "Boolean" -> BOOLEAN
      [] k = "Double" -> {<<0, 0, 0, 0>>, <<16368, 0, 0, 0>>, <<16313, 39321, 39321, 39322>>}
      [] k = "String" -> {<<>>, <<97>>, <<98, 97>>}

\* The input sequences at the capacity of an array and one beyond it.
LongLens == {MaxElements, MaxElements + 1}

\* The sequences of logical values handed to BuildXArray.
BuildInputs(k) ==
    SeqsUpTo(ElemInputs(k), MaxBuild)
        \cup {[i \in 1..n |-> v] : n \in LongLens, v \in ElemInputs(k)}

\* The streams handed to DecodeXArray: the arbitrary ones, and arrays of one
\* and two doubles.
ArrayStreams ==
    Streams \cup {<<1>> \o Float64ToBytes(d) : d \in Doubles}
            \cup {<<2>> \o Float64ToBytes(d) \o Float64ToBytes(<<16368, 0, 0, 0>>) : d \in Doubles}

\* The EntryValues passed to Add and Update: a new scalar of each variant,
\* the nil interface value, and an array.
EntryInputs ==
    {[type |-> k, obj |-> BuildScalar(k, v)] : k \in {"Boolean"}, v \in ElemInputs("Boolean")}
        \cup {[type |-> "Double", obj |-> BuildScalar("Double", v)] : v \in ElemInputs("Double")}
        \cup {[type |-> "String", obj |-> BuildScalar("String", v)] : v \in ElemInputs("String")}
        \cup {[type |-> "Raw", obj |-> BuildRaw(<<255>>)],
              [type |-> "nil", obj |-> NoValue],
              [type |-> "StringArray", obj |-> NoValue]}

MatchingEntries(k) == {e \in EntryInputs : e.type = k}
OtherEntries(k) == {e \in EntryInputs : e.type # k}

\* The indexes passed to Get and Update.
IndexInputs == {0, 1, MaxElements - 1, MaxElements}

\* The array under study, with the memory it refers to.
Array == [heap |-> heap, values |-> values, elements |-> elements]

InitArray ==
    /\ pc = "new"
    /\ kind = "none"
    /\ heap = <<>> /\ values = <<>> /\ values0 = <<>>
    /\ elements = NoArray.elements
    /\ ops = 0
    /\ ret = [op |-> "none", err |-> Nil, val |-> 0, n |-> 0, raw |-> <<>>]
    /\ entry = Unused /\ last = Unused /\ stream = Unused /\ reenc = Unused

otherArray == <<entry, last, stream, reenc>>

\* BuildBooleanArray, BuildDoubleArray, BuildStringArray on a slice of
\* pointers to scalars the caller has built.
ArrayBuild ==
    /\ pc = "new"
    /\ \E k \in ArrayKinds : \E input \in BuildInputs(k) :
        LET objects == [i \in 1..Len(input) |-> BuildScalar(k, input[i])]
            vals == [i \in 1..Len(input) |-> i]
            a == BuildArray(k, objects, vals)
        IN /\ kind' = k
           /\ heap' = a.heap
           /\ values' = a.values
           /\ values0' = vals
           /\ elements' = a.elements
    /\ pc' = "live"
    /\ ret' = [op |-> "Build", err |-> Nil, val |-> 0, n |-> 0, raw |-> <<>>]
    /\ UNCHANGED <<ops, otherArray>>

\* DecodeBooleanArray, DecodeDoubleArray, DecodeStringArray: a failure
\* returns no array.
ArrayDecode ==
    /\ pc = "new"
    /\ \E k \in ArrayKinds : \E r \in ArrayStreams :
        LET d == DecodeArray(k, r)
        IN /\ d.err = Nil
           /\ kind' = k
           /\ heap' = d.val.heap
           /\ values' = d.val.values
           /\ values0' = d.val.values
           /\ elements' = d.val.elements
    /\ pc' = "live"
    /\ ret' = [op |-> "Decode", err |-> Nil, val |-> 0, n |-> 0, raw |-> <<>>]
    /\ UNCHANGED <<ops, otherArray>>

ArrayDoGet ==
    /\ pc = "live"
    /\ \E index \in IndexInputs :
        LET g == ArrayGet(kind, Array, index)
        IN ret' = [op |-> "Get", err |-> g.err, val |-> g.val, n |-> SliceLen(Array), raw |-> <<>>]
    /\ UNCHANGED <<pc, kind, heap, values, values0, elements, ops, otherArray>>

ArrayDoGetRaw ==
    /\ pc = "live"
    /\ ret' = [op |-> "GetRaw", err |-> Nil, val |-> 0, n |-> SliceLen(Array),
               raw |-> ArrayGetRaw(kind, Array)]
    /\ UNCHANGED <<pc, kind, heap, values, values0, elements, ops, otherArray>>

ArrayDoUpdate ==
    /\ pc = "live"
    /\ ops < MaxOps
    /\ \E index \in IndexInputs : \E e \in EntryInputs :
        LET u == ArrayUpdate(kind, Array, index, e)
        IN /\ heap' = u.array.heap
           /\ values' = u.array.values
           /\ elements' = u.array.elements
           /\ ret' = [op |-> "Update", err |-> u.err, val |-> 0, n |-> SliceLen(Array), raw |-> <<>>]
    /\ ops' = ops + 1
    /\ UNCHANGED <<pc, kind, values0, otherArray>>

ArrayDoAdd ==
    /\ pc = "live"
    /\ ops < MaxOps
    /\ \E e \in EntryInputs :
        LET u == ArrayAdd(kind, Array, e)
        IN /\ heap' = u.array.heap
           /\ values' = u.array.values
           /\ elements' = u.array.elements
           /\ ret' = [op |-> "Add", err |-> u.err, val |-> 0, n |-> SliceLen(Array), raw |-> <<>>]
    /\ ops' = ops + 1
    /\ UNCHANGED <<pc, kind, values0, otherArray>>

NextArray ==
    \/ ArrayBuild
    \/ ArrayDecode
    \/ ArrayDoGet
    \/ ArrayDoGetRaw
    \/ ArrayDoUpdate
    \/ ArrayDoAdd

SpecArray == InitArray /\ [][NextArray]_vars

-----------------------------------------------------------------------------
(* The dispatch specification: a tagged byte sequence is decoded by        *)
(* DecodeEntryValueAndType and the value decoded is encoded again as its   *)
(* tag followed by GetRaw().                                               *)

\* The tag bytes of the inputs: the seven value types, the reserved ones,
\* and a byte that is no entry type.
TagBytes == {EntryTypeBoolean, EntryTypeDouble, EntryTypeString, EntryTypeRawData,
             EntryTypeBooleanArr, EntryTypeDoubleArr, EntryTypeStringArr,
             EntryTypeRPCDef, EntryTypeUndef, 4}

TaggedStreams ==
    {<<>>} \cup {<<tag>> \o r : tag \in TagBytes, r \in ArrayStreams}

NoResult == [value |-> NilInterface, entryType |-> EntryTypeUndef, err |-> Nil,
             rest |-> <<>>]

InitDispatch ==
    /\ pc = "input"
    /\ stream \in TaggedStreams
    /\ ret = NoResult
    /\ reenc = <<>>
    /\ entry = Unused /\ last = Unused /\ kind = Unused /\ heap = Unused
    /\ values = Unused /\ values0 = Unused /\ elements = Unused /\ ops = 0

otherDispatch == <<entry, last, kind, heap, values, values0, elements, ops>>

DispatchDecode ==
    /\ pc = "input"
    /\ ret' = DecodeEntryValueAndType(stream)
    /\ pc' = "decoded"
    /\ UNCHANGED <<stream, reenc, otherDispatch>>

DispatchEncode ==
    /\ pc = "decoded"
    /\ ret.err = Nil
    /\ reenc' = <<ret.entryType>> \o EntryValue_GetRaw(ret.value)
    /\ pc' = "encoded"
    /\ UNCHANGED <<stream, ret, otherDispatch>>

NextDispatch ==
    \/ DispatchDecode
    \/ DispatchEncode

SpecDispatch == InitDispatch /\ [][NextDispatch]_vars

-----------------------------------------------------------------------------
(* Properties of the scalar specification *)

\* RawValue decodes, in full, to Value.
RawEncodes(e) ==
    LET d == DecodeScalar(e.type, e.RawValue)
    IN d.err = Nil /\ d.rest = <<>> /\ d.val.Value = e.Value

\* C1: after an UpdateValue or an UpdateRaw that returned no error, Value is
\* the value that update supplied and RawValue is the wire encoding of Value,
\* whatever the value (false, 0.0, the empty string and the empty byte
\* sequence included).
C1_ValueAndRawValueAgree ==
    (pc = "live" /\ ret.op \in {"UpdateValue", "UpdateRaw"} /\ ret.err = Nil) =>
        /\ entry.Value = last
        /\ RawEncodes(entry)

\* The number a ULEB128 prefix of k bytes (k at most 4) states.
FramedLength(r, k) ==
    LET g(i) == IF i <= k THEN (r[i] % 128) * 128^(i - 1) ELSE 0
    IN g(1) + g(2) + g(3) + g(4)

\* A stream that ends before the length prefix does, or whose prefix states
\* more bytes than follow it.
FramedTruncated(r) ==
    LET ends == {k \in 1..Len(r) : r[k] < 128}
    IN \/ ends = {}
       \/ LET k == CHOOSE x \in ends : \A y \in ends : x <= y
          IN k <= 4 /\ Len(r) - k < FramedLength(r, k)

\* A stream on which the decoder of the variant must fail.
Malformed(type, r) ==
    CASE type = "Boolean" -> r = <<>> \/ r[1] \notin {BoolFalse, BoolTrue}
      [] type = "Double" -> Len(r) < 8
      [] OTHER -> FramedTruncated(r)

\* Whatever stream UpdateRaw is given in this state: it fails on a malformed
\* one, returns the decoder's error, and a failure leaves the object.
FailedUpdateRawIsAtomic ==
    pc = "live" =>
        \A r \in Streams :
            LET d == DecodeScalar(entry.type, r)
                u == UpdateRaw(entry, r)
            IN /\ Malformed(entry.type, r) => u.err # Nil
               /\ d.err # Nil => (u.err = d.err /\ u.obj = entry)
               /\ u.err # Nil => u.obj = entry

\* C4: an UpdateRaw on a stream whose decoding fails (a truncated stream, a
\* Boolean byte other than 0 and 1) returns the decoder's error and leaves
\* Value and RawValue as they were.
C4_FailedUpdateRawLeavesObjectIntact ==
    /\ []FailedUpdateRawIsAtomic
    /\ [][(ret'.op = "UpdateRaw" /\ ret'.err # Nil) => entry' = entry]_vars

\* A Boolean that holds true has been fed the byte 2 and has refused it.
C4_Witness ==
    /\ pc = "live"
    /\ ret.op = "UpdateRaw"
    /\ ret.err = ErrEntryDataInvalid
    /\ entry = BuildBoolean(TRUE)

-----------------------------------------------------------------------------
(* Properties of the array specification *)

\* The elements of an array, by value and in order.
Contents(array) ==
    [i \in 1..SliceLen(array) |-> array.heap[Slice(array)[i]]]

\* C2: an Add of a value of the array's variant to an array of 255 elements
\* fails with ErrArrayOutOfSpace and leaves the 255 elements; no reachable
\* array has more than 255 elements.
C2_AddAtCapacityFails ==
    pc = "live" =>
        /\ SliceLen(Array) <= MaxElements
        /\ (ret.op = "Add" /\ ret.n = MaxElements /\ ret.err # ErrEntryCastInvalid) =>
                (ret.err = ErrArrayOutOfSpace /\ SliceLen(Array) = MaxElements)

\* C3: an Update(index, value) with index < length and a value of the
\* array's variant returns no error; afterwards Get(index) yields the same
\* pointer as before, the object it points at has the Value and the RawValue
\* of the value supplied, and the length and every other element are as they
\* were.
C3_UpdateOverwritesInPlace ==
    pc = "live" =>
        \A index \in IndexInputs : \A e \in MatchingEntries(kind) :
            index < SliceLen(Array) =>
                LET u == ArrayUpdate(kind, Array, index, e)
                    g0 == ArrayGet(kind, Array, index)
                    g1 == ArrayGet(kind, u.array, index)
                IN /\ u.err = Nil
                   /\ g0.err = Nil /\ g1.err = Nil /\ g1.val = g0.val
                   /\ u.array.heap[g1.val].Value = e.obj.Value
                   /\ u.array.heap[g1.val].RawValue = e.obj.RawValue
                   /\ Slice(u.array) = Slice(Array)
                   /\ \A p \in 1..Len(heap) : p # g0.val => u.array.heap[p] = heap[p]

\* C5: an Update or an Add with a value that is not of the array's variant
\* fails with ErrEntryCastInvalid, whatever the index and the length, and
\* leaves the array as it was.
C5_WrongVariantIsRejected ==
    pc = "live" =>
        /\ (ret.op \in {"Add", "Update"} /\ ret.err = ErrEntryCastInvalid) =>
                SliceLen(Array) = ret.n
        /\ \A e \in OtherEntries(kind) :
            /\ ArrayAdd(kind, Array, e) = [array |-> Array, err |-> ErrEntryCastInvalid]
            /\ \A index \in IndexInputs :
                ArrayUpdate(kind, Array, index, e)
                    = [array |-> Array, err |-> ErrEntryCastInvalid]

\* An array of Booleans that holds elements has refused an Update.
C5_Witness ==
    /\ pc = "live"
    /\ kind = "Boolean"
    /\ SliceLen(Array) > 0
    /\ ret.op = "Update"
    /\ ret.err = ErrEntryCastInvalid

RECURSIVE AllRaw(_, _, _)
\* The RawValue of the elements from..to of an array, in order.
AllRaw(array, from, to) ==
    IF from > to THEN <<>>
    ELSE IF from = to THEN array.heap[Slice(array)[from]].RawValue
    ELSE LET mid == (from + to) \div 2
         IN AllRaw(array, from, mid) \o AllRaw(array, mid + 1, to)

\* C8: GetRaw returns one byte equal to the element count, then the RawValue
\* of every element in order, and the matching array decoder turns these
\* bytes back into an array of the same elements.
C8_GetRawIsCountThenElements ==
    pc = "live" =>
        LET raw == ArrayGetRaw(kind, Array)
            d == DecodeArray(kind, raw)
        IN /\ raw = <<SliceLen(Array)>> \o AllRaw(Array, 1, SliceLen(Array))
           /\ d.err = Nil
           /\ Contents(d.val) = Contents(Array)

\* C9: Get(index) returns the element at index when index < length, and
\* fails with ErrArrayIndexOutOfBounds exactly when index >= length.
C9_GetIsBoundsChecked ==
    pc = "live" =>
        \A index \in IndexInputs :
            LET g == ArrayGet(kind, Array, index)
            IN /\ index < SliceLen(Array) =>
                    (g.err = Nil /\ g.val = Slice(Array)[index + 1])
               /\ g.err = ErrArrayIndexOutOfBounds <=> index >= SliceLen(Array)

\* C10: no Add on an array made by BuildXArray(values) changes a position of
\* the caller's values, the positions from 255 on included.
C10_CallerValuesUntouched ==
    (pc = "live" /\ ret.op = "Add") => values = values0

-----------------------------------------------------------------------------
(* Properties of the dispatch specification *)

\* The Boolean array tag, the count 2, true, false.
BooleanArrayExample == <<EntryTypeBooleanArr, 2, BoolTrue, BoolFalse>>

\* C6: the tag followed by GetRaw() of the value decoded is the byte sequence
\* that was decoded; [0x10, 0x02, 0x01, 0x00] decodes to the Boolean array
\* [true, false] and is encoded again as the same 4 bytes.
C6_DecodeEncodeRoundTrip ==
    /\ pc = "encoded" => reenc \o ret.rest = stream
    /\ (pc # "input" /\ stream = BooleanArrayExample) =>
            /\ ret.err = Nil
            /\ ret.rest = <<>>
            /\ ret.entryType = EntryTypeBooleanArr
            /\ ret.value.dyn = "*ValueBooleanArray"
            /\ Contents(ret.value.obj) = <<BuildBoolean(TRUE), BuildBoolean(FALSE)>>
    /\ (pc = "encoded" /\ stream = BooleanArrayExample) => reenc = stream

\* The example has been decoded and encoded again.
C6_Witness ==
    /\ pc = "encoded"
    /\ stream = BooleanArrayExample
    /\ reenc = BooleanArrayExample

\* The decoder each tag stands for.
TagDecoder(tag, r) ==
    CASE tag = 0 -> AsEntryValue("*ValueBoolean", DecodeBoolean(r))
      [] tag = 1 -> AsEntryValue("*ValueDouble", DecodeDouble(r))
      [] tag = 2 -> AsEntryValue("*ValueString", DecodeString(r))
      [] tag = 3 -> AsEntryValue("*ValueRaw", DecodeRaw(r))
      [] tag = 16 -> AsEntryValue("*ValueBooleanArray", DecodeBooleanArray(r))
      [] tag = 17 -> AsEntryValue("*ValueDoubleArray", DecodeDoubleArray(r))
      [] tag = 18 -> AsEntryValue("*ValueStringArray", DecodeStringArray(r))

\* C7: DecodeEntryValueAndType reads one tag byte; for the tags 0x00, 0x01,
\* 0x02, 0x03, 0x10, 0x11 and 0x12 its result is that of the variant's
\* decoder on the bytes after the tag; for every other tag it fails with
\* ErrEntryNoSuchType, returns the nil interface value and reads nothing
\* after the tag.
C7_DispatchByTag ==
    (pc # "input" /\ stream # <<>>) =>
        LET tag == stream[1]
            body == Tail(stream)
        IN /\ ret.entryType = tag
           /\ tag \in {0, 1, 2, 3, 16, 17, 18} =>
                LET d == TagDecoder(tag, body)
                IN ret.value = d.value /\ ret.err = d.err /\ ret.rest = d.rest
           /\ tag \notin {0, 1, 2, 3, 16, 17, 18} =>
                /\ ret.err = ErrEntryNoSuchType
                /\ ret.value = NilInterface
                /\ ret.rest = body

\* The reserved RPC tag, followed by more bytes, has been refused.
C7_Witness ==
    /\ pc = "decoded"
    /\ Len(stream) > 1
    /\ stream[1] = EntryTypeRPCDef
    /\ ret.err = ErrEntryNoSuchType
    /\ ret.rest = Tail(stream)

====
